---- MODULE Spec2Model ----
(***************************************************************************)
(* Document counter / numbering service and project archive codec of the   *)
(* Billing-App backend.                                                    *)
(*                                                                         *)
(* The counter part models billing_app/services/counter_store.py (the two  *)
(* stores, the selector and the public functions) together with the        *)
(* DocumentCounter model of billing_app/invoices/models.py.  Requests are   *)
(* processes; every database statement, Firestore call and transaction     *)
(* boundary of a request is one step, so that requests interleave exactly  *)
(* where the code lets them.                                               *)
(***************************************************************************)
EXTENDS Integers, Sequences, FiniteSets, TLC

VARIABLES
    boot,           \* what start-up found: the SDK import, the setting, the client
    store,          \* _STORE: which counter store the process selected
    pad,            \* settings.FIREBASE_COUNTER_PAD
    counterTable,   \* DocumentCounter table (committed rows), pk -> row
    dbShared,       \* SQLite: transactions holding the SHARED lock
    dbReserved,     \* SQLite: the transaction holding the RESERVED lock, if any
    fsDoc,          \* Firestore counter document: <<>> or <<data>>
    fsVer,          \* Firestore: update count of the counter document
    pc,             \* position of every request
    loc,            \* local variables of every request
    ncalls,         \* number of requests started so far
    issued,         \* numbers returned by successful reserve calls, in order of return
    last,           \* outcome of the call that completed last
    prev,           \* outcome of the call that completed before it
    docs,           \* Invoice, Receipt and Waybill tables: type -> (pk -> row)
    assets,         \* files of the assets directory: relative path -> bytes
    clock,          \* timezone.now()
    archive,        \* the archive the last export returned: <<>> or <<archive>>
    snap,           \* the application state that export saw
    pkSeq,          \* sqlite_sequence: the largest pk each document table has used
    attempt         \* the import that started last: <<>> or <<[arch, before]>>

docVars == <<docs, assets, clock, archive, snap, pkSeq, attempt>>

vars == <<boot, store, pad, counterTable, dbShared, dbReserved, fsDoc, fsVer, pc, loc, ncalls,
          issued, last, prev, docVars>>

----------------------------------------------------------------------------
(* Bounds of the model. *)

NumProcs == 2
MaxCalls == 3
MaxAttempts == 2
MaxDigits == 4      \* the longest digit string that is formatted
MaxPad == 4         \* the largest FIREBASE_COUNTER_PAD setting

Procs == 1..NumProcs

----------------------------------------------------------------------------
(* Configuration constants of counter_store.py. *)

DocTypes == {"invoice", "receipt", "waybill"}

PREFIXES == [invoice |-> "INV", receipt |-> "REC", waybill |-> "WAY"]

FIELD_NAMES == [invoice |-> "invoice_counter", receipt |-> "receipt_counter",
                waybill |-> "waybill_counter"]

Fields == {FIELD_NAMES[t] : t \in DocTypes}

DEFAULT_START == 1

DEFAULT_PAD == 3

(* _pad_width(): the configured width when it is a positive integer, else 3 *)
PadWidth(w) == IF w > 0 THEN w ELSE DEFAULT_PAD

----------------------------------------------------------------------------
(* Python's format(value, "0{w}d"): decimal digits, a leading minus sign     *)
(* for negative values, zero filled on the left up to w characters; a       *)
(* value with more than w digits is printed in full.                        *)

DigitChars == <<"0", "1", "2", "3", "4", "5", "6", "7", "8", "9">>

RECURSIVE Digits(_)
Digits(n) == IF n < 10 THEN DigitChars[n + 1]
             ELSE Digits(n \div 10) \o DigitChars[(n % 10) + 1]

RECURSIVE Zeros(_)
Zeros(k) == IF k <= 0 THEN "" ELSE "0" \o Zeros(k - 1)

RECURSIVE KeepLast(_, _)
KeepLast(v, w) == IF w <= 0 THEN "" ELSE KeepLast(v \div 10, w - 1) \o DigitChars[(v % 10) + 1]

ZeroPadFixedWidth(v, w) ==
    IF v >= 0 THEN KeepLast(v, w) ELSE "-" \o KeepLast(-v, w - 1)

ZeroPad(v, w) ==
    IF v >= 0 THEN Zeros(w - Len(Digits(v))) \o Digits(v)
    ELSE "-" \o Zeros(w - 1 - Len(Digits(-v))) \o Digits(-v)

(* _format_number(doc_type, value) *)
FormatNumber(t, v, w) == PREFIXES[t] \o "-" \o ZeroPad(v, PadWidth(w))

(* The f-strings of DocumentCounter.get_next_*_number: f"INV{current:03d}" *)
ModelNumber(t, v) == PREFIXES[t] \o ZeroPad(v, 3)

(* numbering.format_invoice_number / format_receipt_number /               *)
(* format_waybill_number; the pk of an instance that was never stored,     *)
(* None, is 0                                                              *)
format_pk_number(t, pk) ==
    IF pk = 0 THEN PREFIXES[t] \o "000" ELSE PREFIXES[t] \o ZeroPad(pk, 3)

----------------------------------------------------------------------------
(* Counter records. *)

(* FirestoreCounterStore._default_state and the model's field defaults *)
DefaultState == [f \in Fields |-> DEFAULT_START]

(* dict.get(field, _DEFAULT_START) *)
GetField(data, f) == IF f \in DOMAIN data THEN data[f] ELSE DEFAULT_START

(* transaction.set(doc_ref, patch, merge=True) *)
Merge(data, patch) == [f \in (DOMAIN data) \cup (DOMAIN patch) |->
                          IF f \in DOMAIN patch THEN patch[f] ELSE data[f]]

RowExists == 1 \in DOMAIN counterTable
DocExists == fsDoc # <<>>

(* The value the selected store holds for a type; a record that was not    *)
(* created yet stands for its defaults.                                    *)
LocalValue(t) == IF RowExists THEN counterTable[1][FIELD_NAMES[t]] ELSE DEFAULT_START
RemoteValue(t) == IF DocExists THEN GetField(fsDoc[1], FIELD_NAMES[t]) ELSE DEFAULT_START
CounterValue(t) == IF store = "local" THEN LocalValue(t) ELSE RemoteValue(t)

----------------------------------------------------------------------------
(* Requests. *)

NoCounts == [t \in DocTypes |-> -1]
NoSummary == [invoices |-> -1, receipts |-> -1, waybills |-> -1, assets |-> -1]

(* op: the call; by: "save" when a document's save() made it; data ..      *)
(* attempts: locals of the counter stores; doc: the instance being saved;  *)
(* arch, tx: the archive being imported and the uncommitted rows; seen:    *)
(* how many reservations had returned when the call was made               *)
IdleLoc == [op |-> "none", t |-> "invoice", by |-> "call", data |-> DefaultState,
            exists |-> FALSE, cur |-> 0, ver |-> 0, attempts |-> 0,
            doc |-> <<>>, arch |-> <<>>, tx |-> <<>>, seen |-> 0]

(* the outcome of a call: n the underlying integer, s the returned string, *)
(* cnt the counts, sum the import summary, err the exception raised        *)
Event(p, op, t, ok, n, s, c, err) ==
    [op |-> op, t |-> t, by |-> loc[p].by, ok |-> ok, n |-> n, s |-> s, cnt |-> c,
     sum |-> NoSummary, err |-> err]

NoEvent == [op |-> "none", t |-> "invoice", by |-> "call", ok |-> FALSE, n |-> 0, s |-> "",
            cnt |-> NoCounts, sum |-> NoSummary, err |-> ""]

Record(p, ev) ==
    /\ last' = ev
    /\ prev' = last
    /\ issued' = IF ev.op = "reserve" /\ ev.ok
                 THEN Append(issued, [t |-> ev.t, n |-> ev.n, s |-> ev.s,
                                      att |-> loc[p].attempts])
                 ELSE issued

(* A call of the counter store returns or raises.  A call made by save()   *)
(* hands the number to the instance and save() goes on; an exception       *)
(* leaves save() as well.                                                  *)
Finish(p, ev) ==
    /\ Record(p, ev)
    /\ IF loc[p].by = "save" /\ ev.op = "reserve" /\ ev.ok
       THEN /\ pc' = [pc EXCEPT ![p] = "m_save"]
            /\ loc' = [loc EXCEPT ![p].doc = <<[loc[p].doc[1] EXCEPT !.document_number = ev.s]>>]
       ELSE /\ pc' = [pc EXCEPT ![p] = "idle"]
            /\ loc' = [loc EXCEPT ![p] = IdleLoc]

RaiseSwallowed(p, err) ==
    /\ Record(p, Event(p, loc[p].op, loc[p].t, FALSE, 0, "", NoCounts, err))
    /\ IF loc[p].by = "save"
       THEN /\ pc' = [pc EXCEPT ![p] = "m_save"]
            /\ UNCHANGED loc
       ELSE /\ pc' = [pc EXCEPT ![p] = "idle"]
            /\ loc' = [loc EXCEPT ![p] = IdleLoc]

Raise(p, err) ==
    Finish(p, Event(p, loc[p].op, loc[p].t, FALSE, 0, "", NoCounts, err))

(* the first statement of the selected store's peek, reserve or counts *)
StoreEntry(op) ==
    IF store = "local"
    THEN (IF op = "reserve" THEN "lr_get" ELSE "l_get")
    ELSE (IF op = "reserve" THEN "fr_get" ELSE "f_get")

(* peek_document_number / reserve_document_number / get_document_counts:   *)
(* delegate to the selected store.                                         *)
StartCall(p, op, t) ==
    /\ pc[p] = "idle"
    /\ ncalls < MaxCalls
    /\ ncalls' = ncalls + 1
    /\ loc' = [loc EXCEPT ![p] = [IdleLoc EXCEPT !.op = op, !.t = t, !.seen = Len(issued)]]
    /\ pc' = [pc EXCEPT ![p] = StoreEntry(op)]
    /\ UNCHANGED <<docVars, boot, store, pad, counterTable, dbShared, dbReserved, fsDoc, fsVer, issued, last, prev>>

peek_document_number(p) == \E t \in DocTypes : StartCall(p, "peek", t)
reserve_document_number(p) == \E t \in DocTypes : StartCall(p, "reserve", t)
get_document_counts(p) == StartCall(p, "counts", "invoice")

----------------------------------------------------------------------------
(* The SQLite database of settings.DATABASES.  A transaction takes the     *)
(* SHARED lock with its first SELECT and keeps it until it ends; a write   *)
(* needs the RESERVED lock, which one transaction holds at a time; a       *)
(* transaction that holds SHARED and finds RESERVED taken gets "database   *)
(* is locked" at once; COMMIT waits until no other transaction holds       *)
(* SHARED.                                                                 *)

ReservedByOther(p) == dbReserved \ {p} # {}
SharedByOther(p) == dbShared \ {p} # {}

ReleaseLocks(p) ==
    /\ dbShared' = dbShared \ {p}
    /\ dbReserved' = dbReserved \ {p}

----------------------------------------------------------------------------
(* DjangoModelCounterStore.peek / counts over DocumentCounter.get_instance. *)

(* DocumentCounter.get_current_counts, then DjangoModelCounterStore.counts *)
get_current_counts(row) ==
    [invoices |-> row["invoice_counter"] - 1,
     receipts |-> row["receipt_counter"] - 1,
     waybills |-> row["waybill_counter"] - 1]

LocalCountsNoShift(row) ==
    [invoice |-> row["invoice_counter"], receipt |-> row["receipt_counter"],
     waybill |-> row["waybill_counter"]]
LocalCounts(row) ==
    LET data == get_current_counts(row)
    IN  [invoice |-> data["invoices"], receipt |-> data["receipts"],
         waybill |-> data["waybills"]]

(* The result of peek or counts computed from the instance that            *)
(* get_instance returned.                                                  *)
LocalResult(p, row) ==
    IF loc[p].op = "peek"
    THEN Event(p, "peek", loc[p].t, TRUE, row[FIELD_NAMES[loc[p].t]],
               FormatNumber(loc[p].t, row[FIELD_NAMES[loc[p].t]], pad), NoCounts, "")
    ELSE Event(p, "counts", loc[p].t, TRUE, 0, "", LocalCounts(row), "")

(* get_or_create(pk=1), the SELECT (autocommit) *)
LGet(p) ==
    /\ pc[p] = "l_get"
    /\ IF RowExists
       THEN Finish(p, LocalResult(p, counterTable[1]))
       ELSE /\ pc' = [pc EXCEPT ![p] = "l_create"]
            /\ UNCHANGED <<loc, issued, last, prev>>
    /\ UNCHANGED <<docVars, boot, store, pad, counterTable, dbShared, dbReserved, fsDoc, fsVer, ncalls>>

(* get_or_create(pk=1), the INSERT in its own transaction; when the row    *)
(* was created meanwhile the IntegrityError is caught and the row is read. *)
LCreate(p) ==
    /\ pc[p] = "l_create"
    /\ dbReserved = {}
    /\ IF RowExists
       THEN /\ Finish(p, LocalResult(p, counterTable[1]))
            /\ UNCHANGED dbReserved
       ELSE /\ dbReserved' = {p}
            /\ pc' = [pc EXCEPT ![p] = "l_commit"]
            /\ UNCHANGED <<loc, issued, last, prev>>
    /\ UNCHANGED <<docVars, boot, store, pad, counterTable, dbShared, fsDoc, fsVer, ncalls>>

LCommit(p) ==
    /\ pc[p] = "l_commit"
    /\ ~SharedByOther(p)
    /\ counterTable' = (1 :> DefaultState)
    /\ ReleaseLocks(p)
    /\ Finish(p, LocalResult(p, DefaultState))
    /\ UNCHANGED <<docVars, boot, store, pad, fsDoc, fsVer, ncalls>>

----------------------------------------------------------------------------
(* DjangoModelCounterStore.reserve: DocumentCounter.get_next_*_number,      *)
(* one transaction.atomic block.                                           *)

Rollback(p, err) ==
    /\ ReleaseLocks(p)
    /\ Raise(p, err)

(* instance = cls.get_instance(): the SELECT inside the transaction *)
LrGet(p) ==
    /\ pc[p] = "lr_get"
    /\ dbShared' = dbShared \cup {p}
    /\ IF RowExists
       THEN /\ loc' = [loc EXCEPT ![p].data = counterTable[1], ![p].exists = TRUE]
            /\ pc' = [pc EXCEPT ![p] = "lr_save"]
       ELSE /\ pc' = [pc EXCEPT ![p] = "lr_create"]
            /\ UNCHANGED loc
    /\ UNCHANGED <<docVars, boot, store, pad, counterTable, dbReserved, fsDoc, fsVer, ncalls, issued, last, prev>>

(* cls.get_instance(): the INSERT of get_or_create inside the transaction *)
LrCreate(p) ==
    /\ pc[p] = "lr_create"
    /\ IF ReservedByOther(p)
       THEN /\ Rollback(p, "OperationalError")
       ELSE /\ dbReserved' = {p}
            /\ loc' = [loc EXCEPT ![p].data = DefaultState]
            /\ pc' = [pc EXCEPT ![p] = "lr_save"]
            /\ UNCHANGED <<dbShared, issued, last, prev>>
    /\ UNCHANGED <<docVars, boot, store, pad, counterTable, fsDoc, fsVer, ncalls>>

(* current = instance.X_counter; instance.X_counter += 1; instance.save() *)
LrSave(p) ==
    /\ pc[p] = "lr_save"
    /\ IF ReservedByOther(p)
       THEN /\ Rollback(p, "OperationalError")
       ELSE /\ dbReserved' = {p}
            /\ loc' = [loc EXCEPT ![p].cur = loc[p].data[FIELD_NAMES[loc[p].t]],
                                  ![p].data[FIELD_NAMES[loc[p].t]] = @ + 1]
            /\ pc' = [pc EXCEPT ![p] = "lr_commit"]
            /\ UNCHANGED <<dbShared, issued, last, prev>>
    /\ UNCHANGED <<docVars, boot, store, pad, counterTable, fsDoc, fsVer, ncalls>>

(* leaving the atomic block: COMMIT, then return f"INV{current:03d}" *)
LrCommit(p) ==
    /\ pc[p] = "lr_commit"
    /\ ~SharedByOther(p)
    /\ counterTable' = (1 :> loc[p].data)
    /\ ReleaseLocks(p)
    /\ Finish(p, Event(p, loc[p].op, loc[p].t, TRUE, loc[p].cur,
                       ModelNumber(loc[p].t, loc[p].cur), NoCounts, ""))
    /\ UNCHANGED <<docVars, boot, store, pad, fsDoc, fsVer, ncalls>>

LocalStep(p) ==
    \/ LGet(p) \/ LCreate(p) \/ LCommit(p)
    \/ LrGet(p) \/ LrCreate(p) \/ LrSave(p) \/ LrCommit(p)

----------------------------------------------------------------------------
(* FirestoreCounterStore.  The counter document is read and written by     *)
(* separate calls in _ensure_document and inside one transaction in        *)
(* reserve; the backend commits a transaction only when the document it    *)
(* read was not written since, and the transactional decorator reruns the  *)
(* body after an abort, MaxAttempts times at most.                         *)

RemoteData(snapshot) == IF snapshot # <<>> THEN snapshot[1] ELSE DefaultState

(* the dict _ensure_document returns *)
EnsuredState(data) == [f \in Fields |-> GetField(data, f)]

RemoteCounts(data) == [t \in DocTypes |-> data[FIELD_NAMES[t]] - 1]

(* FirestoreCounterStore.peek / counts from the dict of _ensure_document *)
RemoteResult(p, data) ==
    IF loc[p].op = "peek"
    THEN Event(p, "peek", loc[p].t, TRUE, data[FIELD_NAMES[loc[p].t]],
               FormatNumber(loc[p].t, data[FIELD_NAMES[loc[p].t]], pad), NoCounts, "")
    ELSE Event(p, "counts", loc[p].t, TRUE, 0, "", RemoteCounts(data), "")

(* _ensure_document: snapshot = doc_ref.get() *)
FGet(p) ==
    /\ pc[p] = "f_get"
    /\ IF DocExists
       THEN Finish(p, RemoteResult(p, EnsuredState(fsDoc[1])))
       ELSE /\ pc' = [pc EXCEPT ![p] = "f_set"]
            /\ UNCHANGED <<loc, issued, last, prev>>
    /\ UNCHANGED <<docVars, boot, store, pad, counterTable, dbShared, dbReserved, fsDoc, fsVer, ncalls>>

(* _ensure_document: doc_ref.set(data) of the default state *)
FSet(p) ==
    /\ pc[p] = "f_set"
    /\ fsDoc' = <<DefaultState>>
    /\ fsVer' = fsVer + 1
    /\ Finish(p, RemoteResult(p, EnsuredState(DefaultState)))
    /\ UNCHANGED <<docVars, boot, store, pad, counterTable, dbShared, dbReserved, ncalls>>

(* _transaction_body: snapshot = doc_ref.get(transaction=transaction) and  *)
(* current = int(data.get(field_name, _DEFAULT_START))                     *)
FrGet(p) ==
    /\ pc[p] = "fr_get"
    /\ loc' = [loc EXCEPT ![p].exists = DocExists,
                          ![p].data = RemoteData(fsDoc),
                          ![p].ver = fsVer,
                          ![p].cur = GetField(RemoteData(fsDoc), FIELD_NAMES[loc[p].t])]
    /\ pc' = [pc EXCEPT ![p] = "fr_commit"]
    /\ UNCHANGED <<docVars, boot, store, pad, counterTable, dbShared, dbReserved, fsDoc, fsVer, ncalls, issued, last, prev>>

(* the writes of _transaction_body: set(doc_ref, data) when the document   *)
(* was missing, then set(doc_ref, {field_name: current + 1}, merge=True)   *)
TransactionWrites(p) ==
    Merge(loc[p].data, (FIELD_NAMES[loc[p].t] :> loc[p].cur + 1))

(* does the backend accept the commit of p's transaction *)
CommitValidNoCheck(p) == TRUE
CommitValid(p) == fsVer = loc[p].ver

(* commit of the transaction; an aborted transaction is rerun, and after   *)
(* the last attempt the error is raised as RuntimeError                    *)
FrCommit(p) ==
    /\ pc[p] = "fr_commit"
    /\ IF CommitValid(p)
       THEN /\ fsDoc' = <<TransactionWrites(p)>>
            /\ fsVer' = fsVer + 1
            /\ Finish(p, Event(p, "reserve", loc[p].t, TRUE, loc[p].cur,
                               FormatNumber(loc[p].t, loc[p].cur, pad), NoCounts, ""))
       ELSE /\ IF loc[p].attempts + 1 < MaxAttempts
               THEN /\ loc' = [loc EXCEPT ![p].attempts = @ + 1]
                    /\ pc' = [pc EXCEPT ![p] = "fr_get"]
                    /\ UNCHANGED <<issued, last, prev>>
               ELSE Raise(p, "RuntimeError")
            /\ UNCHANGED <<fsDoc, fsVer>>
    /\ UNCHANGED <<docVars, boot, store, pad, counterTable, dbShared, dbReserved, ncalls>>

(* a transport failure of a Firestore call: reserve wraps it in            *)
(* RuntimeError, peek and counts let the client's exception through        *)
FFailRebuild(p) ==
    /\ pc[p] \in {"f_get", "f_set", "fr_get", "fr_commit"}
    /\ Raise(p, IF loc[p].op = "reserve" THEN "RuntimeError" ELSE "GoogleAPICallError")
    /\ store' = "local"
    /\ UNCHANGED <<docVars, boot, pad, counterTable, dbShared, dbReserved, fsDoc, fsVer, ncalls>>

FFailServedLocally(p) ==
    /\ pc[p] \in {"f_get", "f_set", "fr_get", "fr_commit"}
    /\ pc' = [pc EXCEPT ![p] = IF loc[p].op = "reserve" THEN "lr_get" ELSE "l_get"]
    /\ UNCHANGED <<docVars, boot, store, pad, counterTable, dbShared, dbReserved, fsDoc, fsVer,
                   ncalls, loc, issued, last, prev>>

FFail(p) ==
    /\ pc[p] \in {"f_get", "f_set", "fr_get", "fr_commit"}
    /\ Raise(p, IF loc[p].op = "reserve" THEN "RuntimeError" ELSE "GoogleAPICallError")
    /\ UNCHANGED <<docVars, boot, store, pad, counterTable, dbShared, dbReserved, fsDoc, fsVer, ncalls>>

RemoteStep(p) == FGet(p) \/ FSet(p) \/ FrGet(p) \/ FrCommit(p) \/ FFail(p)

----------------------------------------------------------------------------
(* Values of the documents.  A Decimal with two places is its number of    *)
(* hundredths, a datetime or date is a tick of the clock with 0 for None,  *)
(* None in a CharField is "".  The strings of an archive that the codec    *)
(* parses are sequences of characters, <<>> standing for JSON null.        *)

Range(f) == {f[x] : x \in DOMAIN f}

Abs(n) == IF n < 0 THEN -n ELSE n

RECURSIVE Pow10(_)
Pow10(k) == IF k <= 0 THEN 1 ELSE 10 * Pow10(k - 1)

RECURSIVE DigitSeq(_)
DigitSeq(n) == IF n < 10 THEN <<DigitChars[n + 1]>>
               ELSE Append(DigitSeq(n \div 10), DigitChars[(n % 10) + 1])

DigitValue(c) == CHOOSE d \in 0..9 : DigitChars[d + 1] = c

RECURSIVE SeqToNat(_)
SeqToNat(s) == IF s = <<>> THEN 0
               ELSE 10 * SeqToNat(SubSeq(s, 1, Len(s) - 1)) + DigitValue(s[Len(s)])

(* Decimal.quantize(..., rounding=ROUND_HALF_UP) of n / d *)
RoundHalfUp(n, d) == IF n >= 0 THEN (2 * n + d) \div (2 * d)
                     ELSE -(((2 * (-n)) + d) \div (2 * d))

(* the default rounding of the decimal context, ROUND_HALF_EVEN, of n / d *)
RoundHalfEven(n, d) ==
    LET q == Abs(n) \div d
        r == Abs(n) % d
        m == IF 2 * r > d \/ (2 * r = d /\ q % 2 = 1) THEN q + 1 ELSE q
    IN  IF n >= 0 THEN m ELSE -m

(* _decimal_to_str: format(value, "f") of a Decimal with two places *)
decimal_to_str(c) ==
    (IF c < 0 THEN <<"-">> ELSE <<>>) \o DigitSeq(Abs(c) \div 100) \o <<".">>
        \o <<DigitChars[((Abs(c) % 100) \div 10) + 1], DigitChars[(Abs(c) % 10) + 1]>>

PointAt(s) == IF \E i \in DOMAIN s : s[i] = "."
              THEN CHOOSE i \in DOMAIN s : s[i] = "."
              ELSE Len(s) + 1

(* _parse_decimal: Decimal(str(value)), then stored by a DecimalField with *)
(* decimal_places = 2                                                      *)
parse_decimal(s) ==
    IF s = <<>> THEN 0
    ELSE LET neg == s[1] = "-"
             body == IF neg THEN Tail(s) ELSE s
             ip == SubSeq(body, 1, PointAt(body) - 1)
             fp == SubSeq(body, PointAt(body) + 1, Len(body))
             num == SeqToNat(ip \o fp)
             c == IF Len(fp) <= 2 THEN num * Pow10(2 - Len(fp))
                  ELSE RoundHalfEven(num, Pow10(Len(fp) - 2))
         IN  IF neg THEN -c ELSE c

(* _dt_to_iso and datetime.isoformat() *)
dt_to_iso(v) == IF v = 0 THEN <<>> ELSE <<"T">> \o DigitSeq(v)

(* _parse_datetime *)
parse_datetime(s) == IF s = <<>> THEN 0 ELSE SeqToNat(Tail(s))

(* issue_date.isoformat() if issue_date else None *)
date_to_iso(v) == IF v = 0 THEN <<>> ELSE <<"D">> \o DigitSeq(v)

(* _parse_date *)
parse_date(s) == IF s = <<>> THEN 0 ELSE SeqToNat(Tail(s))

(* Python's "a or b" *)
Or(a, b) == IF a = 0 THEN b ELSE a

(* a JSON number and a JSON string where the codec converts with int() *)
JInt(n) == [int |-> n]
JStr(s) == [str |-> s]

IsNumeral(s) == s # <<>> /\ \A i \in DOMAIN s : \E d \in 0..9 : DigitChars[d + 1] = s[i]

(* int(value): the number itself, the value of a numeral; ValueError else *)
IntOk(v) == "int" \in DOMAIN v \/ IsNumeral(v.str)
ToInt(v) == IF "int" \in DOMAIN v THEN v.int ELSE SeqToNat(v.str)

(* dict.get(key, default) *)
DictGet(data, key, default) == IF key \in DOMAIN data THEN data[key] ELSE default

----------------------------------------------------------------------------
(* invoices/services/calculator.py.  The numbers of a line item and the    *)
(* rates of settings.TAX_SETTINGS are in thousandths, a Decimal with two   *)
(* places is in hundredths.                                                *)

TAX_SETTINGS == [NHIL |-> 25, GETFUND |-> 25, COVID |-> 10, VAT |-> 150]

RECURSIVE SumSeq(_)
SumSeq(s) == IF s = <<>> THEN 0 ELSE s[1] + SumSeq(Tail(s))

RECURSIVE SumOver(_, _)
SumOver(f, S) == IF S = {} THEN 0
                 ELSE LET x == CHOOSE y \in S : TRUE IN f[x] + SumOver(f, S \ {x})

(* _to_decimal(value) of a number that is not a Decimal *)
to_decimal(v) == RoundHalfUp(v, 10)

(* calculate_totals(items) for a non-empty list of items *)
calculate_totals(items) ==
    LET subtotal == RoundHalfUp(
            SumSeq([i \in DOMAIN items |->
                       to_decimal(DictGet(items[i], "quantity", 0))
                           * to_decimal(DictGet(items[i], "unit_price", 0))]),
            100)
        levies == [name \in DOMAIN TAX_SETTINGS |->
                      RoundHalfUp(subtotal * TAX_SETTINGS[name], 1000)]
    IN  [subtotal |-> subtotal, levies |-> levies,
         grand_total |-> subtotal + SumOver(levies, DOMAIN levies)]

(* sum() of no items is the int 0, which has no quantize() *)
TotalsComputable(items) == items # <<>>

(* Invoice.recalculate *)
recalculate(inst) ==
    LET totals == calculate_totals(inst.items)
    IN  [inst EXCEPT !.subtotal = totals.subtotal, !.levies = totals.levies,
                     !.grand_total = totals.grand_total]

(* json.dumps of the levies by the JSONField, which has no encoder: the    *)
(* values that recalculate stores are Decimal                              *)
LeviesSerializable(levies) == DOMAIN levies = {}

----------------------------------------------------------------------------
(* Invoice, Receipt and Waybill rows and their save(). *)

NoRows == [pk \in {} |-> 0]
NoLevies == [name \in {} |-> 0]
NoFiles == [f \in {} |-> ""]

Put(tbl, pk, row) == [k \in (DOMAIN tbl) \cup {pk} |-> IF k = pk THEN row ELSE tbl[k]]

MaxOf(S, least) == IF S = {} THEN least ELSE CHOOSE m \in S : \A k \in S : k <= m

Amounts == {12000, 5}
ItemLists == {<<>>, <<[quantity |-> 2000, unit_price |-> 15500]>>}

NewReceipt(amount) ==
    [id |-> 0, received_from |-> "Ama", issue_date |-> clock, amount |-> amount,
     description |-> "", payment_method |-> "cash", approved_by |-> "",
     document_number |-> "", created_at |-> 0, updated_at |-> 0]

NewWaybill ==
    [id |-> 0, customer_name |-> "Ama", issue_date |-> clock, destination |-> "Tema",
     driver_name |-> "", receiver_name |-> "", items |-> <<>>,
     document_number |-> "", created_at |-> 0, updated_at |-> 0]

NewInvoice(items) ==
    [id |-> 0, customer_name |-> "Ama", issue_date |-> clock, classification |-> "",
     items |-> items, subtotal |-> 0, levies |-> NoLevies, grand_total |-> 0,
     document_number |-> "", created_at |-> 0, updated_at |-> 0]

(* the field an edit of a stored document changes *)
EditField == [invoice |-> "classification", receipt |-> "description",
              waybill |-> "driver_name"]

OthersIdle(p) == \A q \in Procs \ {p} : pc[q] = "idle"

(* save(): if not self.document_number: reserve_document_number(type) *)
Save(p, t, inst) ==
    /\ pc[p] = "idle"
    /\ ncalls < MaxCalls
    /\ ncalls' = ncalls + 1
    /\ loc' = [loc EXCEPT ![p] = [IdleLoc EXCEPT !.op = "reserve", !.t = t, !.by = "save",
                                                 !.doc = <<inst>>]]
    /\ pc' = [pc EXCEPT ![p] = IF inst.document_number = "" THEN StoreEntry("reserve")
                               ELSE "m_save"]
    /\ UNCHANGED <<docVars, boot, store, pad, counterTable, dbShared, dbReserved, fsDoc, fsVer,
                   issued, last, prev>>

create_receipt(p) == \E amount \in Amounts : Save(p, "receipt", NewReceipt(amount))

create_waybill(p) == Save(p, "waybill", NewWaybill)

create_invoice(p) == \E items \in ItemLists : Save(p, "invoice", NewInvoice(items))

update_document(p) ==
    \E t \in DocTypes : \E pk \in DOMAIN docs[t] :
        Save(p, t, [docs[t][pk] EXCEPT ![EditField[t]] = "edited"])

(* the unique constraint of document_number; NULLs do not collide *)
NumberTaken(t, inst) ==
    /\ inst.document_number # ""
    /\ \E k \in DOMAIN docs[t] :
          k # inst.id /\ docs[t][k].document_number = inst.document_number

(* InvoiceForm, ReceiptForm and WaybillForm.  The value of the form field  *)
(* document_number is the supplied text, "" when the data has none, and    *)
(* the ModelForm writes it to the instance; is_valid() rejects a number    *)
(* that another row of the table has.                                      *)
SuppliedNumbers == {"", "A-1"}

NewDocument(t) ==
    IF t = "invoice" THEN NewInvoice(<<[quantity |-> 2000, unit_price |-> 15500]>>)
    ELSE IF t = "receipt" THEN NewReceipt(12000)
    ELSE NewWaybill

FormSave(p, t, instance, number) ==
    /\ ~NumberTaken(t, [instance EXCEPT !.document_number = number])
    /\ Save(p, t, [instance EXCEPT !.document_number = number])

(* POST create: form = Form(data); form.save() *)
form_create(p) ==
    \E t \in DocTypes : \E number \in SuppliedNumbers :
        FormSave(p, t, NewDocument(t), number)

(* PUT / PATCH: form = Form(data, instance=document); form.save() *)
form_update(p) ==
    \E t \in DocTypes : \E pk \in DOMAIN docs[t] : \E number \in SuppliedNumbers :
        FormSave(p, t, [docs[t][pk] EXCEPT ![EditField[t]] = "edited"], number)

SaveReturns(p, ev) ==
    /\ Record(p, ev)
    /\ pc' = [pc EXCEPT ![p] = "idle"]
    /\ loc' = [loc EXCEPT ![p] = IdleLoc]

(* the rest of save(): Invoice recalculates, then models.Model.save()     *)
(* inserts or updates the row with auto_now_add / auto_now timestamps     *)
MSave(p) ==
    LET t == loc[p].t
        d == loc[p].doc[1]
        inst == IF t = "invoice" /\ TotalsComputable(d.items) THEN recalculate(d) ELSE d
        pk == IF d.id = 0 THEN pkSeq[t] + 1 ELSE d.id
        row == [inst EXCEPT !.id = pk,
                            !.created_at = IF d.id = 0 THEN clock ELSE @,
                            !.updated_at = clock]
        err == IF t = "invoice" /\ ~TotalsComputable(d.items) THEN "AttributeError"
               ELSE IF t = "invoice" /\ ~LeviesSerializable(inst.levies) THEN "TypeError"
               ELSE IF NumberTaken(t, inst) THEN "IntegrityError"
               ELSE ""
    IN  /\ pc[p] = "m_save"
        /\ dbReserved = {}
        /\ dbShared = {}
        /\ IF err # ""
           THEN /\ SaveReturns(p, Event(p, "save", t, FALSE, 0, "", NoCounts, err))
                /\ UNCHANGED <<docs, pkSeq>>
           ELSE /\ docs' = [docs EXCEPT ![t] = Put(@, pk, row)]
                /\ pkSeq' = [pkSeq EXCEPT ![t] = IF pk > @ THEN pk ELSE @]
                /\ SaveReturns(p, Event(p, "save", t, TRUE, pk, row.document_number,
                                        NoCounts, ""))
        /\ clock' = clock + 1
        /\ UNCHANGED <<assets, archive, snap, attempt, boot, store, pad, counterTable, dbShared, dbReserved,
                       fsDoc, fsVer, ncalls>>

DocumentCall(p) ==
    \/ create_receipt(p)
    \/ create_waybill(p)
    \/ create_invoice(p)
    \/ update_document(p)
    \/ form_create(p)
    \/ form_update(p)

----------------------------------------------------------------------------
(* services/project_io.py: the archive codec.  An archive is the member    *)
(* metadata.json, the member project.json (<<>> when the member is         *)
(* missing) and the other members by name; a name is the sequence of its   *)
(* path components.                                                        *)

SCHEMA_VERSION == 1

APP_VERSION == "0.1.0"

PayloadKey == [invoice |-> "invoices", receipt |-> "receipts", waybill |-> "waybills"]

serialize_invoice(invoice) ==
    [id |-> invoice.id,
     customer_name |-> invoice.customer_name,
     issue_date |-> date_to_iso(invoice.issue_date),
     classification |-> invoice.classification,
     items |-> invoice.items,
     subtotal |-> decimal_to_str(invoice.subtotal),
     levies |-> invoice.levies,
     grand_total |-> decimal_to_str(invoice.grand_total),
     created_at |-> dt_to_iso(invoice.created_at),
     updated_at |-> dt_to_iso(invoice.updated_at)]

serialize_receipt(receipt) ==
    [id |-> receipt.id,
     received_from |-> receipt.received_from,
     issue_date |-> date_to_iso(receipt.issue_date),
     amount |-> decimal_to_str(receipt.amount),
     description |-> receipt.description,
     payment_method |-> receipt.payment_method,
     approved_by |-> receipt.approved_by,
     created_at |-> dt_to_iso(receipt.created_at),
     updated_at |-> dt_to_iso(receipt.updated_at)]

serialize_waybill(waybill) ==
    [id |-> waybill.id,
     customer_name |-> waybill.customer_name,
     issue_date |-> date_to_iso(waybill.issue_date),
     destination |-> waybill.destination,
     driver_name |-> waybill.driver_name,
     receiver_name |-> waybill.receiver_name,
     items |-> waybill.items,
     created_at |-> dt_to_iso(waybill.created_at),
     updated_at |-> dt_to_iso(waybill.updated_at)]

Serialize(t, row) ==
    IF t = "invoice" THEN serialize_invoice(row)
    ELSE IF t = "receipt" THEN serialize_receipt(row)
    ELSE serialize_waybill(row)

(* Model.objects.all().order_by("id") *)
RECURSIVE OrderById(_)
OrderById(tbl) ==
    IF DOMAIN tbl = {} THEN <<>>
    ELSE LET m == CHOOSE k \in DOMAIN tbl : \A j \in DOMAIN tbl : k <= j
         IN  <<tbl[m]>> \o OrderById([k \in (DOMAIN tbl) \ {m} |-> tbl[k]])

Payload(t) == LET rows == OrderById(docs[t])
              IN  [i \in DOMAIN rows |-> Serialize(t, rows[i])]

(* _iter_asset_files and the member name f"assets/{relative}" *)
AssetMembers == [m \in {<<"assets">> \o f : f \in DOMAIN assets} |-> assets[Tail(m)]]

(* the counters, documents and asset files of the application *)
StateView ==
    [counters |-> [t \in DocTypes |-> CounterValue(t)], docs |-> docs, assets |-> assets]

(* export_project_archive: get_instance creates the counter row when it   *)
(* is missing                                                              *)
export_project_archive(p) ==
    LET counters == IF RowExists THEN counterTable[1] ELSE DefaultState
    IN  /\ pc[p] = "idle"
        /\ OthersIdle(p)
        /\ ncalls < MaxCalls
        /\ ncalls' = ncalls + 1
        /\ counterTable' = (1 :> counters)
        /\ archive' = <<[metadata |-> <<[schema_version |-> SCHEMA_VERSION,
                                         exported_at |-> dt_to_iso(clock),
                                         app_version |-> APP_VERSION]>>,
                         project |-> <<[counters |-> [f \in Fields |-> JInt(counters[f])],
                                        invoices |-> Payload("invoice"),
                                        receipts |-> Payload("receipt"),
                                        waybills |-> Payload("waybill")]>>,
                         files |-> AssetMembers]>>
        /\ clock' = clock + 1
        /\ Record(p, Event(p, "export", "invoice", TRUE, 0, "", NoCounts, ""))
        /\ UNCHANGED <<docs, assets, pkSeq, attempt, boot, store, pad, dbShared, dbReserved, fsDoc, fsVer,
                       pc, loc>>
        /\ snap' = <<StateView'>>

(* the rows, the counter records and the files an import may touch *)
AppState == [docs |-> docs, counterTable |-> counterTable, fsDoc |-> fsDoc, assets |-> assets]

(* a member whose text json.loads rejects *)
NotJson == [text |-> "{"]

(* An archive that was not written by export: an invoice and a receipt,    *)
(* one counter, an asset, a member whose name leaves assets/ and a member  *)
(* that is not below assets/.                                              *)
HandMade ==
    [metadata |-> <<[schema_version |-> SCHEMA_VERSION, exported_at |-> dt_to_iso(1),
                     app_version |-> APP_VERSION]>>,
     project |-> <<[counters |-> [invoice_counter |-> JInt(5)],
                    invoices |-> <<[id |-> 7, customer_name |-> "Kofi",
                                    issue_date |-> date_to_iso(1),
                                    items |-> <<[quantity |-> 2000, unit_price |-> 15500]>>,
                                    subtotal |-> <<"3", "1", ".", "0", "0">>,
                                    levies |-> [VAT |-> 465],
                                    grand_total |-> <<"3", "5", ".", "6", "5">>,
                                    created_at |-> dt_to_iso(1),
                                    updated_at |-> dt_to_iso(1)]>>,
                    receipts |-> <<[id |-> 1, received_from |-> "Kofi",
                                    amount |-> <<"7", ".", "5">>,
                                    created_at |-> dt_to_iso(1)]>>,
                    waybills |-> <<>>]>>,
     files |-> [m \in {<<"assets", "stamp.png">>, <<"assets", "..", "evil.sh">>,
                        <<"etc", "passwd">>} |->
                   IF m[1] # "assets" THEN "passwd-bytes"
                   ELSE IF m[2] = ".." THEN "sh-bytes" ELSE "stamp-bytes"]]

(* archives that fail validation *)
WrongSchema(a) == [a EXCEPT !.metadata = <<[a.metadata[1] EXCEPT !.schema_version = 2]>>]
NoMetadata(a) == [a EXCEPT !.metadata = <<>>]
NoProject(a) == [a EXCEPT !.project = <<>>]
BadMetadata(a) == [a EXCEPT !.metadata = <<NotJson>>]
BadProject(a) == [a EXCEPT !.project = <<NotJson>>]

(* archives that pass validation and fail inside the atomic block *)
NoId(a) == [a EXCEPT !.project = <<[a.project[1] EXCEPT
                !.receipts = <<[received_from |-> "Kofi", amount |-> <<"1">>]>>]>>]
BadCounter(a) == [a EXCEPT !.project = <<[a.project[1] EXCEPT
                !.counters = [invoice_counter |-> JStr(<<"a", "b", "c">>)]]>>]

(* an archive that imports, with a counter no export writes *)
ZeroCounter(a) == [a EXCEPT !.project = <<[a.project[1] EXCEPT
                !.counters = [invoice_counter |-> JInt(0)]]>>]

Exported == IF archive = <<>> THEN {} ELSE {archive[1]}

ImportInputs ==
    Exported \cup {HandMade, WrongSchema(HandMade), NoMetadata(HandMade), NoProject(HandMade),
                   BadMetadata(HandMade), BadProject(HandMade), NoId(HandMade),
                   BadCounter(HandMade), ZeroCounter(HandMade)}

(* import_project_archive(archive_file) *)
import_project_archive(p) ==
    \E a \in ImportInputs :
        /\ pc[p] = "idle"
        /\ OthersIdle(p)
        /\ ncalls < MaxCalls
        /\ ncalls' = ncalls + 1
        /\ loc' = [loc EXCEPT ![p] = [IdleLoc EXCEPT !.op = "import", !.arch = <<a>>]]
        /\ pc' = [pc EXCEPT ![p] = "i_open"]
        /\ attempt' = <<[arch |-> a, before |-> AppState]>>
        /\ UNCHANGED <<docs, assets, clock, archive, snap, pkSeq, boot, store, pad, counterTable,
                       dbShared, dbReserved, fsDoc, fsVer, issued, last, prev>>

ImportRaise(p) ==
    /\ Record(p, Event(p, "import", "invoice", FALSE, 0, "", NoCounts, "ProjectImportError"))
    /\ pc' = [pc EXCEPT ![p] = "idle"]
    /\ loc' = [loc EXCEPT ![p] = IdleLoc]

(* archive.read and json.loads of the two members (KeyError for a missing *)
(* member, JSONDecodeError for a text that is not JSON), then              *)
(* _validate_schema_version                                                *)
Readable(member) == member # <<>> /\ member # <<NotJson>>

ImportOpenNoSchemaCheck(p) ==
    LET a == loc[p].arch[1]
    IN  /\ pc[p] = "i_open"
        /\ IF ~Readable(a.metadata) \/ ~Readable(a.project)
           THEN ImportRaise(p)
           ELSE /\ pc' = [pc EXCEPT ![p] = "i_docs"]
                /\ UNCHANGED <<loc, issued, last, prev>>
        /\ UNCHANGED <<docVars, boot, store, pad, counterTable, dbShared, dbReserved, fsDoc, fsVer,
                       ncalls>>
ImportOpen(p) ==
    LET a == loc[p].arch[1]
    IN  /\ pc[p] = "i_open"
        /\ IF \/ ~Readable(a.metadata)
              \/ ~Readable(a.project)
              \/ DictGet(a.metadata[1], "schema_version", 0) # SCHEMA_VERSION
           THEN ImportRaise(p)
           ELSE /\ pc' = [pc EXCEPT ![p] = "i_docs"]
                /\ UNCHANGED <<loc, issued, last, prev>>
        /\ UNCHANGED <<docVars, boot, store, pad, counterTable, dbShared, dbReserved, fsDoc, fsVer,
                       ncalls>>

(* the keyword arguments of Invoice(...), Receipt(...) and Waybill(...) *)
InvoiceFrom(data) ==
    [id |-> data["id"],
     customer_name |-> DictGet(data, "customer_name", ""),
     issue_date |-> Or(parse_date(DictGet(data, "issue_date", <<>>)), clock),
     classification |-> DictGet(data, "classification", ""),
     items |-> DictGet(data, "items", <<>>),
     subtotal |-> parse_decimal(DictGet(data, "subtotal", <<>>)),
     levies |-> DictGet(data, "levies", NoLevies),
     grand_total |-> parse_decimal(DictGet(data, "grand_total", <<>>)),
     document_number |-> "",
     created_at |-> Or(parse_datetime(DictGet(data, "created_at", <<>>)), clock),
     updated_at |-> Or(parse_datetime(DictGet(data, "updated_at", <<>>)), clock)]

ReceiptFrom(data) ==
    [id |-> data["id"],
     received_from |-> DictGet(data, "received_from", ""),
     issue_date |-> Or(parse_date(DictGet(data, "issue_date", <<>>)), clock),
     amount |-> parse_decimal(DictGet(data, "amount", <<>>)),
     description |-> DictGet(data, "description", ""),
     payment_method |-> DictGet(data, "payment_method", ""),
     approved_by |-> DictGet(data, "approved_by", ""),
     document_number |-> "",
     created_at |-> Or(parse_datetime(DictGet(data, "created_at", <<>>)), clock),
     updated_at |-> Or(parse_datetime(DictGet(data, "updated_at", <<>>)), clock)]

WaybillFrom(data) ==
    [id |-> data["id"],
     customer_name |-> DictGet(data, "customer_name", ""),
     issue_date |-> Or(parse_date(DictGet(data, "issue_date", <<>>)), clock),
     destination |-> DictGet(data, "destination", ""),
     driver_name |-> DictGet(data, "driver_name", ""),
     receiver_name |-> DictGet(data, "receiver_name", ""),
     items |-> DictGet(data, "items", <<>>),
     document_number |-> "",
     created_at |-> Or(parse_datetime(DictGet(data, "created_at", <<>>)), clock),
     updated_at |-> Or(parse_datetime(DictGet(data, "updated_at", <<>>)), clock)]

InstanceFrom(t, data) ==
    IF t = "invoice" THEN InvoiceFrom(data)
    ELSE IF t = "receipt" THEN ReceiptFrom(data)
    ELSE WaybillFrom(data)

(* bulk_create: the INSERT takes every field from pre_save, and pre_save   *)
(* of an auto_now_add or auto_now field replaces the value by now          *)
bulk_create(objs) ==
    LET rows == [i \in DOMAIN objs |-> [objs[i] EXCEPT !.created_at = clock,
                                                       !.updated_at = clock]]
    IN  [pk \in {rows[i].id : i \in DOMAIN rows} |->
            (CHOOSE r \in Range(rows) : r.id = pk)]

PayloadOf(a, t) == DictGet(a.project[1], PayloadKey[t], <<>>)

(* _replace_documents inside the atomic block: delete every row, build the *)
(* instances (KeyError without "id"), bulk_create (IntegrityError when two *)
(* rows have one id)                                                       *)
ImportDocuments(p) ==
    LET a == loc[p].arch[1]
        lists == [t \in DocTypes |-> PayloadOf(a, t)]
        hasIds == \A t \in DocTypes : \A i \in DOMAIN lists[t] : "id" \in DOMAIN lists[t][i]
        distinctIds == \A t \in DocTypes : \A i, j \in DOMAIN lists[t] :
                           i # j => lists[t][i]["id"] # lists[t][j]["id"]
    IN  /\ pc[p] = "i_docs"
        /\ IF hasIds /\ distinctIds
           THEN /\ loc' = [loc EXCEPT ![p].tx = <<[docs |->
                              [t \in DocTypes |->
                                  bulk_create([i \in DOMAIN lists[t] |->
                                                  InstanceFrom(t, lists[t][i])])]]>>]
                /\ pc' = [pc EXCEPT ![p] = "i_counters"]
                /\ UNCHANGED <<issued, last, prev>>
           ELSE ImportRaise(p)
        /\ UNCHANGED <<docVars, boot, store, pad, counterTable, dbShared, dbReserved, fsDoc, fsVer,
                       ncalls>>

(* _replace_counters inside the atomic block: update_or_create(pk=1) with  *)
(* int(data.get(field, 1))                                                 *)
ImportCounters(p) ==
    LET data == DictGet(loc[p].arch[1].project[1], "counters", <<>>)
        defaults == [f \in Fields |-> ToInt(DictGet(data, f, JInt(1)))]
    IN  /\ pc[p] = "i_counters"
        /\ IF \A f \in Fields : IntOk(DictGet(data, f, JInt(1)))
           THEN /\ loc' = [loc EXCEPT ![p].tx = <<[docs |-> loc[p].tx[1].docs,
                                                   counters |-> defaults]>>]
                /\ pc' = [pc EXCEPT ![p] = "i_assets"]
                /\ UNCHANGED <<issued, last, prev>>
           ELSE ImportRaise(p)
        /\ UNCHANGED <<docVars, boot, store, pad, counterTable, dbShared, dbReserved, fsDoc, fsVer,
                       ncalls>>

(* the members _replace_assets copies: below assets/ and without ".." *)
CopiedMembersNoParentCheck(a) ==
    {m \in DOMAIN a.files : Len(m) > 1 /\ m[1] = "assets"}

CopiedMembers(a) ==
    {m \in DOMAIN a.files : Len(m) > 1 /\ m[1] = "assets" /\ ".." \notin Range(Tail(m))}

(* _replace_assets: empty the directory, then copy the members *)
ImportAssetsKeep(p) ==
    LET a == loc[p].arch[1]
        new == {Tail(m) : m \in CopiedMembers(a)}
    IN  /\ pc[p] = "i_assets"
        /\ assets' = [f \in (DOMAIN assets) \cup new |->
                          IF f \in new THEN a.files[<<"assets">> \o f] ELSE assets[f]]
        /\ loc' = [loc EXCEPT ![p].cur = Cardinality(CopiedMembers(a))]
        /\ pc' = [pc EXCEPT ![p] = "i_commit"]
        /\ UNCHANGED <<docs, clock, archive, snap, pkSeq, attempt, boot, store, pad, counterTable,
                       dbShared, dbReserved, fsDoc, fsVer, ncalls, issued, last, prev>>
ImportAssets(p) ==
    LET a == loc[p].arch[1]
    IN  /\ pc[p] = "i_assets"
        /\ assets' = [f \in {Tail(m) : m \in CopiedMembers(a)} |-> a.files[<<"assets">> \o f]]
        /\ loc' = [loc EXCEPT ![p].cur = Cardinality(CopiedMembers(a))]
        /\ pc' = [pc EXCEPT ![p] = "i_commit"]
        /\ UNCHANGED <<docs, clock, archive, snap, pkSeq, attempt, boot, store, pad, counterTable, dbShared,
                       dbReserved, fsDoc, fsVer, ncalls, issued, last, prev>>

(* _replace_assets when the copy of a member raises OSError: the          *)
(* directory was emptied and the members before it were written; the       *)
(* exception rolls the transaction back and becomes ProjectImportError     *)
ImportAssetsFail(p) ==
    LET a == loc[p].arch[1]
    IN  /\ pc[p] = "i_assets"
        /\ \E written \in (SUBSET CopiedMembers(a)) \ {CopiedMembers(a)} :
               assets' = [f \in {Tail(m) : m \in written} |-> a.files[<<"assets">> \o f]]
        /\ ImportRaise(p)
        /\ UNCHANGED <<docs, clock, archive, snap, pkSeq, attempt, boot, store, pad, counterTable,
                       dbShared, dbReserved, fsDoc, fsVer, ncalls>>

(* leaving the atomic block: COMMIT, then return ProjectSummary(...) *)
ImportCommit(p) ==
    LET a == loc[p].arch[1]
        tx == loc[p].tx[1]
    IN  /\ pc[p] = "i_commit"
        /\ dbReserved = {}
        /\ dbShared = {}
        /\ docs' = tx.docs
        /\ pkSeq' = [t \in DocTypes |-> MaxOf((DOMAIN tx.docs[t]) \cup {pkSeq[t]}, 0)]
        /\ counterTable' = (1 :> tx.counters)
        /\ clock' = clock + 1
        /\ Record(p, [Event(p, "import", "invoice", TRUE, 0, "", NoCounts, "")
                         EXCEPT !.sum = [invoices |-> Len(PayloadOf(a, "invoice")),
                                         receipts |-> Len(PayloadOf(a, "receipt")),
                                         waybills |-> Len(PayloadOf(a, "waybill")),
                                         assets |-> loc[p].cur]])
        /\ pc' = [pc EXCEPT ![p] = "idle"]
        /\ loc' = [loc EXCEPT ![p] = IdleLoc]
        /\ UNCHANGED <<assets, archive, snap, attempt, boot, store, pad, dbShared, dbReserved, fsDoc, fsVer,
                       ncalls>>

ArchiveStep(p) ==
    \/ MSave(p)
    \/ ImportOpen(p) \/ ImportDocuments(p) \/ ImportCounters(p) \/ ImportAssets(p)
    \/ ImportAssetsFail(p)
    \/ ImportCommit(p)

ArchiveCall(p) == export_project_archive(p) \/ import_project_archive(p)

----------------------------------------------------------------------------
(* counter_api.py: the views of api/counter/<type>/next/.  They use the     *)
(* DocumentCounter model whichever store is selected.                       *)

API_PREFIXES == [invoice |-> "INV", receipt |-> "REC", waybill |-> "WB"]

(* f"INV-{instance.invoice_counter:04d}" *)
ApiNumber(t, v) == API_PREFIXES[t] \o "-" \o ZeroPad(v, 4)

(* GET: DocumentCounter.get_instance() and the f-string *)
http_get(p) ==
    \E t \in DocTypes :
        LET counters == IF RowExists THEN counterTable[1] ELSE DefaultState
        IN  /\ pc[p] = "idle"
            /\ OthersIdle(p)
            /\ ncalls < MaxCalls
            /\ ncalls' = ncalls + 1
            /\ counterTable' = (1 :> counters)
            /\ Record(p, [Event(p, "http_get", t, TRUE, counters[FIELD_NAMES[t]],
                                ApiNumber(t, counters[FIELD_NAMES[t]]), NoCounts, "")
                             EXCEPT !.by = "http"])
            /\ UNCHANGED <<docVars, boot, store, pad, dbShared, dbReserved, fsDoc, fsVer, pc, loc>>

(* POST: DocumentCounter.get_next_*_number() *)
http_post(p) ==
    \E t \in DocTypes :
        /\ pc[p] = "idle"
        /\ ncalls < MaxCalls
        /\ ncalls' = ncalls + 1
        /\ loc' = [loc EXCEPT ![p] = [IdleLoc EXCEPT !.op = "http_post", !.t = t, !.by = "http"]]
        /\ pc' = [pc EXCEPT ![p] = "lr_get"]
        /\ UNCHANGED <<docVars, boot, store, pad, counterTable, dbShared, dbReserved, fsDoc, fsVer,
                       issued, last, prev>>

EndpointCall(p) == http_get(p) \/ http_post(p)

----------------------------------------------------------------------------
(* Concurrent requests against the counter store. *)

Stores == {"local", "remote"}

(* What start-up finds: whether google.cloud.firestore was imported, the    *)
(* FIREBASE_PROJECT_ID setting ("" stands for an unset or empty one), and   *)
(* how FirestoreCounterStore() ends when _build_store gets to call it.      *)
ProjectIds == {"", "demo"}
Attempted(sdk, id) == sdk /\ id # ""
Environments ==
    {e \in [sdk : BOOLEAN, project_id : ProjectIds, client : {"ok", "raises", "not called"}] :
        (e.client = "not called") <=> ~Attempted(e.sdk, e.project_id)}

(* _build_store() *)
build_storeNoFallback(e) ==
    IF ~e.sdk THEN "local"
    ELSE IF e.project_id = "" THEN "local"
    ELSE "remote"

build_store(e) ==
    IF ~e.sdk THEN "local"
    ELSE IF e.project_id = "" THEN "local"
    ELSE IF e.client = "ok" THEN "remote"
    ELSE "local"

(* what the assets directory holds when the process starts *)
AssetDirs == {NoFiles, [f \in {<<"logo.png">>} |-> "png-bytes"]}

InitPad(dir, widths) ==
    /\ boot \in Environments
    /\ store = build_store(boot)
    /\ pad \in widths
    /\ counterTable = <<>>
    /\ dbShared = {}
    /\ dbReserved = {}
    /\ fsDoc = <<>>
    /\ fsVer = 0
    /\ pc = [p \in Procs |-> "idle"]
    /\ loc = [p \in Procs |-> IdleLoc]
    /\ ncalls = 0
    /\ issued = <<>>
    /\ last = NoEvent
    /\ prev = NoEvent
    /\ docs = [t \in DocTypes |-> NoRows]
    /\ assets = dir
    /\ clock = 1
    /\ archive = <<>>
    /\ snap = <<>>
    /\ pkSeq = [t \in DocTypes |-> 0]
    /\ attempt = <<>>

InitWith(dir) == InitPad(dir, {DEFAULT_PAD})

Init == InitWith(NoFiles)

CounterCall(p) ==
    \/ peek_document_number(p)
    \/ reserve_document_number(p)
    \/ get_document_counts(p)

Next == \E p \in Procs : CounterCall(p) \/ LocalStep(p) \/ RemoteStep(p)

Spec == Init /\ [][Next]_vars

(* Concurrent reservations against the Firestore store alone. *)
InitRemote == Init /\ store = "remote"

NextReserve == \E p \in Procs : reserve_document_number(p) \/ FrGet(p) \/ FrCommit(p) \/ FFail(p)

SpecReserve == InitRemote /\ [][NextReserve]_vars

(* One request at a time: the counter calls, the documents and the codec. *)
NextSeq ==
    \/ CounterCall(1) \/ LocalStep(1) \/ RemoteStep(1)
    \/ DocumentCall(1) \/ ArchiveCall(1) \/ ArchiveStep(1)
    \/ EndpointCall(1)

InitSeq == \E dir \in AssetDirs : InitWith(dir)

SpecSeq == InitSeq /\ [][NextSeq]_vars

(* The formatting functions on their own, for every setting of the width. *)
PadSettings == 0..MaxPad

FormatValues ==
    {Pow10(k) - 1 : k \in 1..MaxDigits} \cup {Pow10(k) : k \in 1..MaxDigits} \cup {0, -1}

(* _format_number(doc_type, value) *)
format_number(p) ==
    \E t \in DocTypes : \E v \in FormatValues :
        /\ pc[p] = "idle"
        /\ Record(p, Event(p, "format", t, TRUE, v, FormatNumber(t, v, pad), NoCounts, ""))
        /\ UNCHANGED <<docVars, boot, store, pad, counterTable, dbShared, dbReserved, fsDoc, fsVer,
                       pc, loc, ncalls>>

(* numbering.format_*_number(pk) *)
PkValues == {0, 7, 12, 42, 1000}

numbering(p) ==
    \E t \in DocTypes : \E pk \in PkValues :
        /\ pc[p] = "idle"
        /\ Record(p, Event(p, "numbering", t, TRUE, pk, format_pk_number(t, pk), NoCounts, ""))
        /\ UNCHANGED <<docVars, boot, store, pad, counterTable, dbShared, dbReserved, fsDoc, fsVer,
                       pc, loc, ncalls>>

(* calculate_totals(items): the items of the repository's test, an item    *)
(* with three places, a levy that ends in half a pesewa, an item without   *)
(* a quantity, and no items                                                *)
TotalsInputs ==
    {<<[quantity |-> 2000, unit_price |-> 50000], [quantity |-> 1000, unit_price |-> 100000]>>,
     <<[quantity |-> 333, unit_price |-> 3000]>>,
     <<[quantity |-> 1000, unit_price |-> 200]>>,
     <<[unit_price |-> 3000]>>,
     <<>>}

totals(p) ==
    \E items \in TotalsInputs :
        /\ pc[p] = "idle"
        /\ IF TotalsComputable(items)
           THEN /\ loc' = [loc EXCEPT ![p].doc = <<recalculate(NewInvoice(items))>>]
                /\ Record(p, Event(p, "totals", "invoice", TRUE, 0, "", NoCounts, ""))
           ELSE /\ loc' = [loc EXCEPT ![p].doc = <<NewInvoice(items)>>]
                /\ Record(p, Event(p, "totals", "invoice", FALSE, 0, "", NoCounts,
                                   "AttributeError"))
        /\ UNCHANGED <<docVars, boot, store, pad, counterTable, dbShared, dbReserved, fsDoc, fsVer,
                       pc, ncalls>>

InitFunctions == InitPad(NoFiles, PadSettings) /\ boot.client = "ok"

NextFunctions == format_number(1) \/ numbering(1) \/ totals(1)

SpecFunctions == InitFunctions /\ [][NextFunctions]_vars

----------------------------------------------------------------------------
(* Properties. *)

ReserveOf(t) == SelectSeq(issued, LAMBDA e : e.t = t)

(* the integer a reservation of the Local store has read from the row *)
InLocalReserve(p) == pc[p] \in {"lr_save", "lr_commit"}
ObservedLocal(p) ==
    IF pc[p] = "lr_save" THEN loc[p].data[FIELD_NAMES[loc[p].t]] ELSE loc[p].cur

(* C1: Local store: no two concurrent reserve calls for the same document   *)
(* type have read the same integer from the counter row.                    *)
C1_NoSharedRead ==
    \A p, q \in Procs :
        (p # q /\ InLocalReserve(p) /\ InLocalReserve(q) /\ loc[p].t = loc[q].t)
            => ObservedLocal(p) # ObservedLocal(q)

(* C2: Remote store: the integers returned by successful concurrent         *)
(* reserve calls for one type are pairwise distinct.                        *)
C2_DistinctReserves ==
    \A i, j \in DOMAIN issued :
        (i < j /\ issued[i].t = issued[j].t) => issued[i].n # issued[j].n

(* two reservations of one type have returned, the later one from a        *)
(* transaction that the backend aborted and the decorator reran            *)
C2_Witness ==
    \E i, j \in DOMAIN issued :
        /\ i < j
        /\ issued[i].t = issued[j].t
        /\ issued[j].att >= 1
        /\ issued[i].n = 1
        /\ issued[j].n = 2

(* C3: peek and counts, interleaved with reserve in any way, never lower a  *)
(* counter, and no integer that a reserve returned is returned again by a   *)
(* later reserve.                                                           *)
PeekStepKeepsCounters ==
    \A p \in Procs :
        (loc[p].op \in {"peek", "counts"} /\ pc'[p] # pc[p])
            => \A t \in DocTypes : CounterValue(t)' >= CounterValue(t)

NoReissue ==
    \A t \in DocTypes : \A i, j \in DOMAIN ReserveOf(t) :
        i # j => ReserveOf(t)[i].n # ReserveOf(t)[j].n

C3_PeekSafeWithReserve == [][PeekStepKeepsCounters]_vars /\ []NoReissue

(* C4: a peek followed immediately by a reserve of the same type returns    *)
(* the same string from both calls.                                         *)
C4_PeekThenReserveSame ==
    (/\ prev.op = "peek" /\ prev.ok
     /\ last.op = "reserve" /\ last.ok
     /\ prev.t = last.t)
        => last.s = prev.s

(* C5: from a fresh counter with pad width 3, and as long as no archive was  *)
(* exported or imported, the i-th reserve of a type returns PREFIX-i, i     *)
(* zero-padded to three digits, and a following counts reports the number   *)
(* of reserves made.                                                        *)
C5_SequentialNumbers ==
    archive = <<>> => \A t \in DocTypes :
        /\ \A i \in DOMAIN ReserveOf(t) :
               ReserveOf(t)[i].s = PREFIXES[t] \o "-" \o ZeroPad(i, 3)
        /\ (last.op = "counts" /\ last.ok) => last.cnt[t] = Len(ReserveOf(t))

(* C6: no step lowers a counter, and a step that changes the value of a     *)
(* counter is the step in which a reserve of that type returns its number.  *)
CounterStepIsReserve ==
    \A t \in DocTypes :
        /\ CounterValue(t)' >= CounterValue(t)
        /\ CounterValue(t)' # CounterValue(t)
              => /\ Len(issued') = Len(issued) + 1
                 /\ issued'[Len(issued')].t = t

C6_CountersMonotone == [][CounterStepIsReserve]_vars

(* C7: a successful reserve(t) adds exactly 1 to the counter of t, returns  *)
(* the formatted value the counter had before, and leaves the counters of   *)
(* the other types unchanged.                                               *)
ReserveReturns(p) ==
    /\ pc[p] \in {"lr_commit", "fr_commit"}
    /\ pc'[p] \in {"idle", "m_save"}
    /\ last'.ok

ReserveEffect ==
    \A p \in Procs : \A t \in DocTypes :
        (ReserveReturns(p) /\ loc[p].t = t) =>
            /\ CounterValue(t)' = CounterValue(t) + 1
            /\ last'.s = FormatNumber(t, CounterValue(t), pad)
            /\ \A u \in DocTypes \ {t} : CounterValue(u)' = CounterValue(u)

C7_ReserveEffect == [][ReserveEffect]_vars

(* C8: no step of a peek changes the value of any counter (creating the     *)
(* record with its defaults aside), and a peek that follows a peek of the   *)
(* same type returns the same string.                                       *)
PeekFrame ==
    \A p \in Procs :
        (loc[p].op = "peek" /\ pc'[p] # pc[p])
            => \A t \in DocTypes : CounterValue(t)' = CounterValue(t)

SamePeek ==
    (/\ prev.op = "peek" /\ prev.ok
     /\ last.op = "peek" /\ last.ok
     /\ prev.t = last.t)
        => last.s = prev.s

C8_PeekFrame == [][PeekFrame]_vars /\ []SamePeek

(* C9: get_document_counts returns, for each type, the counter value minus  *)
(* one; a record that was just created reports 0 for all three.             *)
C9_CountsAreCounterMinusOne ==
    (last.op = "counts" /\ last.ok)
        => \A t \in DocTypes : last.cnt[t] = CounterValue(t) - 1

(* counts returned after one invoice number was issued *)
C9_Witness ==
    /\ last.op = "counts" /\ last.ok
    /\ last.cnt = [invoice |-> 1, receipt |-> 0, waybill |-> 0]

(* C10: when an import of the exported archive has returned, the counters,  *)
(* the three document tables field for field (document_number included)     *)
(* and the asset files are those of the state that was exported.            *)
C10_RoundTrip ==
    (last.op = "import" /\ last.ok /\ archive = <<attempt[1].arch>>) => StateView = snap[1]

(* C11: an import of an archive that fails validation (a member missing or  *)
(* not JSON, or another schema version) ends with ProjectImportError, and   *)
(* the documents, the counters and the asset files are those from before    *)
(* the import.                                                              *)
FailsValidation(a) ==
    \/ a.metadata = <<>> \/ a.project = <<>>
    \/ a.metadata = <<NotJson>> \/ a.project = <<NotJson>>
    \/ a.metadata[1].schema_version # SCHEMA_VERSION

ImportReturned == last.op = "import" /\ \A p \in Procs : pc[p] = "idle"

C11_InvalidArchiveRejected ==
    (ImportReturned /\ FailsValidation(attempt[1].arch))
        => /\ ~last.ok
           /\ last.err = "ProjectImportError"
           /\ AppState = attempt[1].before

(* a rejected import into a database that holds a document and a counter   *)
(* record                                                                  *)
C11_Witness ==
    /\ ImportReturned
    /\ FailsValidation(attempt[1].arch)
    /\ docs["receipt"] # NoRows
    /\ RowExists

(* C12: an import that ends with an error leaves the documents, the counter *)
(* record and the asset directory as they were before it began.             *)
C12_ImportAllOrNothing ==
    (ImportReturned /\ ~last.ok) => AppState = attempt[1].before

(* C13: a successful import replaces: the stored documents of each type are *)
(* the records of the archive (the same ids, and every field of a record    *)
(* stored with its parsed value; the timestamps are the subject of C27),    *)
(* no earlier document is left, each field of the counter record is the     *)
(* archive's value or 1 when the archive has none, and the asset directory  *)
(* holds the archive's members below assets/ and nothing else.              *)
Expected(rec, k) ==
    IF k \in {"subtotal", "grand_total", "amount"} THEN parse_decimal(rec[k])
    ELSE IF k = "issue_date" THEN parse_date(rec[k])
    ELSE rec[k]

RecordStored(t, rec) ==
    /\ rec.id \in DOMAIN docs[t]
    /\ \A k \in (DOMAIN rec) \ {"created_at", "updated_at"} :
           docs[t][rec.id][k] = Expected(rec, k)

ImportSucceeded == ImportReturned /\ last.ok

ForeignImport == \E p \in Procs : pc[p] = "i_commit" /\ archive # loc[p].arch

NumberKept ==
    ~ForeignImport =>
        \A t \in DocTypes : \A pk \in (DOMAIN docs[t]) \cap (DOMAIN docs'[t]) :
            docs'[t][pk].document_number = docs[t][pk].document_number

C14_NumberNeverChanges == [][NumberKept]_vars

(* C15: a reserve made by save() is made for an instance that was never     *)
(* stored, and the save() that stores a new document has made one.          *)
ReserveBySave(p) ==
    /\ loc[p].by = "save"
    /\ pc[p] \in {"lr_commit", "fr_commit"}
    /\ pc'[p] = "m_save"

Creates(p) ==
    /\ pc[p] = "m_save"
    /\ loc[p].doc[1].id = 0
    /\ last'.op = "save" /\ last'.ok

OneReservePerDocument ==
    \A p \in Procs :
        /\ ReserveBySave(p) => loc[p].doc[1].id = 0
        /\ Creates(p) => (last.op = "reserve" /\ last.ok /\ last.by = "save")

C15_OneReservePerDocument == [][OneReservePerDocument]_vars

(* C16: no two stored documents of one type expose the same number.         *)
(* invoice_number / receipt_number / waybill_number                         *)
ExposedNumber(t, pk) ==
    IF docs[t][pk].document_number # "" THEN docs[t][pk].document_number
    ELSE format_pk_number(t, pk)

C16_ExposedNumbersDistinct ==
    \A t \in DocTypes : \A a, b \in DOMAIN docs[t] :
        a # b => ExposedNumber(t, a) # ExposedNumber(t, b)

(* C17: selection ends with one of the two stores, and with the Firestore   *)
(* store exactly when the SDK was imported, a project id is set and the     *)
(* construction of FirestoreCounterStore raised nothing.                    *)
C17_SelectionPolicy ==
    /\ store \in Stores
    /\ store = "remote" <=> (boot.sdk /\ boot.project_id # "" /\ boot.client = "ok")

C17_Witness ==
    /\ boot.sdk /\ boot.project_id # "" /\ boot.client = "raises"
    /\ store = "local"
    /\ last.op = "reserve" /\ last.ok

(* C18: no step of a peek, reserve or counts call, whether the call returns *)
(* or raises, changes the store the public functions delegate to.           *)
C18_StoreFixed == [][store' = store]_vars

C18_Witness ==
    /\ store = "remote"
    /\ last.op = "reserve" /\ ~last.ok
    /\ prev.op = "peek" /\ prev.ok

(* C19 as claimed: with the Firestore store selected no public call ends    *)
(* in an error, the Local store serving it when the backend fails.          *)
CounterOps == {"peek", "reserve", "counts"}

C19_ServedByLocal ==
    (store = "remote" /\ last.op \in CounterOps) => last.ok

(* C19, amended: with the Firestore store selected no call runs the Local   *)
(* store's code, and a call that the backend fails ends with an exception,  *)
(* returns nothing and leaves the Local store's record as it was.           *)
LocalPcs == {"l_get", "l_create", "l_commit", "lr_get", "lr_create", "lr_save", "lr_commit"}
RemotePcs == {"f_get", "f_set", "fr_get", "fr_commit"}

RemoteCallFails(p) ==
    /\ pc[p] \in RemotePcs
    /\ pc'[p] = "idle"
    /\ ~last'.ok

NoFallback ==
    store = "remote" =>
        \A p \in Procs :
            /\ pc'[p] \notin LocalPcs
            /\ RemoteCallFails(p) =>
                   /\ last'.err # ""
                   /\ last'.s = "" /\ last'.cnt = NoCounts
                   /\ counterTable' = counterTable
                   /\ store' = "remote"

C19_NoRuntimeFallback == [][NoFallback]_vars

C19_Witness ==
    /\ store = "remote"
    /\ last.op \in CounterOps /\ ~last.ok /\ last.err # ""
    /\ fsDoc # <<>>

(* C20: a call that the Firestore backend fails ends with RuntimeError and  *)
(* returns no number and no counts.                                         *)
C20_FailureIsRuntimeError ==
    (store = "remote" /\ last.op \in CounterOps /\ ~last.ok) =>
        (last.err = "RuntimeError" /\ last.s = "" /\ last.cnt = NoCounts)

(* C21: while save() waits for its number no document is stored, and when   *)
(* the reservation raises, save() ends with that exception and the          *)
(* documents are those from before the call.                                *)
InSaveReserve(p) == loc[p].by = "save" /\ pc[p] \in LocalPcs \cup RemotePcs

ReserveRaisesInSave(p) == InSaveReserve(p) /\ last' # last /\ ~last'.ok

SaveFailsClean ==
    \A p \in Procs :
        /\ InSaveReserve(p) => docs' = docs
        /\ ReserveRaisesInSave(p) =>
               /\ pc'[p] = "idle"
               /\ last'.op = "reserve" /\ last'.err # ""

C21_ReserveErrorPropagates == [][SaveFailsClean]_vars

C21_Witness ==
    /\ last.op = "reserve" /\ last.by = "save" /\ ~last.ok /\ last.err = "RuntimeError"
    /\ prev.op = "save" /\ prev.ok
    /\ \E t \in DocTypes : Cardinality(DOMAIN docs[t]) = 1
    /\ \A p \in Procs : pc[p] = "idle"

(* C22: the counters an export writes are the selected store's values, and  *)
(* a peek that follows a successful import returns the imported counter.    *)
ExportedCounter(a, t) ==
    LET counters == a.project[1].counters
    IN  IF FIELD_NAMES[t] \in DOMAIN counters THEN ToInt(counters[FIELD_NAMES[t]]) ELSE 1

ExportReadsStore ==
    (last.op = "export" /\ last.ok) =>
        \A t \in DocTypes : ExportedCounter(archive[1], t) = CounterValue(t)

PeekAfterImport ==
    (last.op = "peek" /\ last.ok /\ prev.op = "import" /\ prev.ok /\ pc[1] = "idle") =>
        last.n = ExportedCounter(attempt[1].arch, last.t)

C22_CodecUsesSelectedStore == ExportReadsStore /\ PeekAfterImport

(* C23: for one type and one width two values have the same formatted       *)
(* number exactly when they are equal, and the number holds every digit of  *)
(* the value: zeros fill it up to the width and a longer value is printed   *)
(* in full.                                                                 *)
Longer(a, b) == IF a > b THEN a ELSE b

FormatInjective ==
    (last.op = "format" /\ prev.op = "format" /\ last.t = prev.t) =>
        (last.s = prev.s <=> last.n = prev.n)

FormatKeepsDigits ==
    (last.op = "format" /\ last.n >= 0) =>
        /\ \E k \in 0..MaxPad : last.s = PREFIXES[last.t] \o "-" \o Zeros(k) \o Digits(last.n)
        /\ Len(last.s) = Len(PREFIXES[last.t]) + 1 + Longer(PadWidth(pad), Len(Digits(last.n)))

C23_FormatInjective == FormatInjective /\ FormatKeepsDigits

C23_Witness ==
    /\ last.op = "format" /\ prev.op = "format" /\ last.t = prev.t
    /\ pad = 2
    /\ prev.n = 99 /\ prev.s = "INV-99"
    /\ last.n = 1000 /\ last.s = "INV-1000"

(* C24: the pk formatters return INV-NEW / REC-NEW / WB-NEW for None and    *)
(* otherwise INV / REC / WB, a hyphen and the pk zero-padded to 5 digits.   *)
TestedPrefix == [invoice |-> "INV", receipt |-> "REC", waybill |-> "WB"]

C24_PkFormatters ==
    last.op = "numbering" =>
        last.s = IF last.n = 0 THEN TestedPrefix[last.t] \o "-NEW"
                 ELSE TestedPrefix[last.t] \o "-" \o ZeroPad(last.n, 5)

(* C25: calculate_totals returns, for every list of items, the sum of       *)
(* quantity x unit_price rounded half-up to two places, for each configured *)
(* tax the subtotal times its rate rounded half-up to two places, and the   *)
(* subtotal plus the levies.                                                *)
ExactSum(items) ==
    SumSeq([i \in DOMAIN items |->
               DictGet(items[i], "quantity", 0) * DictGet(items[i], "unit_price", 0)])

TotalsAsClaimed(d) ==
    /\ d.subtotal = RoundHalfUp(ExactSum(d.items), 10000)
    /\ DOMAIN d.levies = DOMAIN TAX_SETTINGS
    /\ \A name \in DOMAIN TAX_SETTINGS :
           d.levies[name] = RoundHalfUp(d.subtotal * TAX_SETTINGS[name], 1000)
    /\ d.grand_total = d.subtotal + SumOver(d.levies, DOMAIN d.levies)

C25_TotalsFormula ==
    last.op = "totals" => (last.ok /\ TotalsAsClaimed(loc[1].doc[1]))

(* C26: no file is ever written through a ".." segment, and a successful    *)
(* import has written and counted exactly the members that are below        *)
(* assets/ and have no ".." segment.                                        *)
SafeMembers(a) == {m \in DOMAIN a.files : m[1] = "assets" /\ ".." \notin Range(m)}

C26_AssetsStayInside ==
    /\ \A f \in DOMAIN assets : ".." \notin Range(f)
    /\ ImportSucceeded =>
           /\ DOMAIN assets = {Tail(m) : m \in SafeMembers(attempt[1].arch)}
           /\ last.sum.assets = Cardinality(SafeMembers(attempt[1].arch))

C26_Witness ==
    /\ ImportSucceeded
    /\ \E m \in DOMAIN attempt[1].arch.files : m[1] = "assets" /\ ".." \in Range(m)
    /\ \E m \in DOMAIN attempt[1].arch.files : m[1] # "assets"
    /\ last.sum.assets = 1
    /\ DOMAIN assets = {<<"stamp.png">>}

(* C27: after a successful import every document of the archive is stored   *)
(* under the pk of its record, with the created_at and updated_at of the    *)
(* record when the record has them.                                         *)
Timestamps == {"created_at", "updated_at"}

KeepsKeyAndTimes(t, rec) ==
    /\ rec.id \in DOMAIN docs[t]
    /\ \A k \in Timestamps :
           (k \in DOMAIN rec /\ rec[k] # <<>>) => docs[t][rec.id][k] = parse_datetime(rec[k])

C27_ImportKeepsTimestamps ==
    ImportSucceeded =>
        \A t \in DocTypes : \A i \in DOMAIN PayloadOf(attempt[1].arch, t) :
            KeepsKeyAndTimes(t, PayloadOf(attempt[1].arch, t)[i])

(* C28: a reserve that returns has an integer larger than that of every     *)
(* reserve of its type that had returned before it was called.              *)
ReturnsLarger(p) ==
    (loc[p].op = "reserve" /\ issued' # issued /\ pc'[p] = "idle" /\ pc[p] # "idle") =>
        \A i \in 1..loc[p].seen :
            issued[i].t = loc[p].t => issued[i].n < issued'[Len(issued')].n

C28_IncreasingInRealTime == [][\A p \in Procs : ReturnsLarger(p)]_vars

(* C29: a GET of a counter endpoint leaves the counters as they are, a POST *)
(* adds 1 to the counter of its type, and a POST that follows a GET of the  *)
(* same type returns the next_number the GET returned.                      *)
GetReturns(p) == pc[p] = "idle" /\ last'.op = "http_get" /\ ncalls' = ncalls + 1

PostReturns(p) == pc[p] = "lr_commit" /\ loc[p].op = "http_post" /\ pc'[p] = "idle"

EndpointContract ==
    \A p \in Procs :
        /\ GetReturns(p) => \A t \in DocTypes : LocalValue(t)' = LocalValue(t)
        /\ \A t \in DocTypes :
               (PostReturns(p) /\ loc[p].t = t) =>
                   /\ LocalValue(t)' = LocalValue(t) + 1
                   /\ (last.op = "http_get" /\ last.t = t) => last'.s = last.s

C29_GetThenPostSameNumber == [][EndpointContract]_vars

(* C30: every counter of both stores is at least 1, no count that is        *)
(* reported is negative and no reserved number is built from less than 1.   *)
C30_CountersPositive ==
    /\ \A t \in DocTypes : LocalValue(t) >= 1 /\ RemoteValue(t) >= 1
    /\ (last.op = "counts" /\ last.ok) => \A t \in DocTypes : last.cnt[t] >= 0
    /\ (last.op = "reserve" /\ last.ok) => last.n >= 1

====
